---- MODULE Spec2Model ----
(***************************************************************************)
(* Color Examiner (src/index.tsx): the ColorScience utilities and the      *)
(* ColorExaminer component (session state, region selection, analysis).    *)
(*                                                                         *)
(* Numbers.  JavaScript numbers are doubles.  Here a real number is a      *)
(* fixed-point integer in units of 1/Scale, every division rounds down,    *)
(* and Math.pow / Math.sqrt are the integer roots of the scaled operands.  *)
(* Lab coordinates and deltaE are kept in units of 1/LabScale.  Region     *)
(* coordinates are exact fractions [n, d] in lowest terms.                 *)
(***************************************************************************)
EXTENDS Integers, Sequences, FiniteSets, TLC

(* null, for the values that are records when set *)
NULL == [null |-> TRUE]

(* image: string | null.  An image is named by a positive number. *)
NoImage == 0

Scale == 10 ^ 4
LabScale == 10 ^ 2

Max2(a, b) == IF a >= b THEN a ELSE b
Min2(a, b) == IF a <= b THEN a ELSE b
Abs(a) == IF a < 0 THEN -a ELSE a
Max3(a, b, c) == Max2(a, Max2(b, c))
Min3(a, b, c) == Min2(a, Min2(b, c))

(* a * b for fixed-point a, b (both at most about 2 * Scale) *)
Mul(a, b) == (a * b) \div Scale

Pow3(y) == Mul(Mul(y, y), y)
Pow5(y) == Mul(Mul(Mul(y, y), Mul(y, y)), y)
Square(y) == y * y

(* y to the power k, k in {2, 3, 5}; fixed-point for k = 3 and k = 5 *)
PowK(k, y) == IF k = 2 THEN Square(y) ELSE IF k = 3 THEN Pow3(y) ELSE Pow5(y)

(* the largest y in lo..hi with PowK(k, y) <= t, given PowK(k, lo) <= t *)
RECURSIVE RootSearch(_, _, _, _)
RootSearch(k, t, lo, hi) ==
  IF lo >= hi THEN lo
  ELSE LET mid == (lo + hi + 1) \div 2
       IN IF PowK(k, mid) <= t THEN RootSearch(k, t, mid, hi)
          ELSE RootSearch(k, t, lo, mid - 1)

(* Math.pow(t, 1 / 3) for fixed-point t in [0, 2] *)
CubeRoot(t) == RootSearch(3, t, 0, 2 * Scale)

(* Math.pow(u, 2.4) for fixed-point u in [0, 1]: u^2 * (u^2)^(1/5) *)
Pow24(u) == Mul(Mul(u, u), RootSearch(5, Mul(u, u), 0, Scale))

(* Math.sqrt(n) for an integer n *)
Sqrt(n) == RootSearch(2, n, 0, 46340)

----
(* ColorScience *)

(* rgbToHsv: s and v of a pixel with byte channels (h is never read) *)
rgbToHsv(r, g, b) ==
  LET max == Max3(r, g, b)
      min == Min3(r, g, b)
      d == max - min
  IN [s |-> IF max = 0 THEN 0 ELSE (d * Scale) \div max,
      v |-> (max * Scale) \div 255]

(* the sRGB gamma expansion of one channel, c fixed-point in [0, 1] *)
GammaExpand(c) ==
  IF c * (100000 \div Scale) > 4045
  THEN Pow24(((c + (55 * Scale) \div 1000) * 1000) \div 1055)
  ELSE (c * 100) \div 1292

(* the cube root on every input, without the linear branch *)
LabFCubeRoot(f) == CubeRoot(f)

(* the CIE nonlinearity of one normalised axis, f fixed-point *)
LabF(f) ==
  IF f * (1000000 \div Scale) > 8856
  THEN CubeRoot(f)
  ELSE (7787 * f) \div 1000 + (16 * Scale) \div 116

(* rgbToLab: r, g, b fixed-point in [0, 255]; the result in units of 1/LabScale *)
rgbToLab(r, g, b) ==
  LET lr == GammaExpand(r \div 255)
      lg == GammaExpand(g \div 255)
      lb == GammaExpand(b \div 255)
      x == (lr * 4124 + lg * 3576 + lb * 1805) \div 100
      y == (lr * 2126 + lg * 7152 + lb * 722) \div 100
      z == (lr * 193 + lg * 1192 + lb * 9505) \div 100
      fx == LabF((x * 1000) \div 95047)
      fy == LabF((y * 1000) \div 100000)
      fz == LabF((z * 1000) \div 108883)
      k == Scale \div LabScale
  IN [l |-> (116 * fy - 16 * Scale) \div k,
      a |-> (500 * (fx - fy)) \div k,
      b |-> (200 * (fy - fz)) \div k]

deltaE(lab1, lab2) ==
  Sqrt(Square(lab1.l - lab2.l) + Square(lab1.a - lab2.a) + Square(lab1.b - lab2.b))

----
(* Input data: the photographs a file or a camera frame can hold.  Every   *)
(* image is ImgDims wide and high; its pixels run through Palette.         *)

NumImages == 1
Images == 1..NumImages

(* what toDataURL returns for the 0 x 0 canvas of a video without a stream; *)
(* it never loads                                                           *)
EmptyImg == -1

Palette ==
  << <<255, 255, 255>>,    \* glare, v >= 0.95
     <<200, 100, 50>>,     \* saturated orange
     <<120, 120, 120>>,    \* mid gray
     <<100, 150, 200>>,    \* blue
     <<10, 10, 10>> >>     \* shadow, v <= 0.05

ImgDims(i) == [w |-> 2, h |-> 3]

ImgPixel(i, px, py) == Palette[((2 * (i - 1) + px + py) % Len(Palette)) + 1]

(* the hidden analysis canvas: a fresh <canvas> is 300 x 150 and transparent *)
DefaultCanvasW == 300
DefaultCanvasH == 150
FreshCanvas == [w |-> DefaultCanvasW, h |-> DefaultCanvasH, img |-> NoImage]

(* getImageData reads transparent black outside the canvas and on a blank one *)
CanvasPixel(c, px, py) ==
  IF c.img # NoImage /\ px >= 0 /\ px < c.w /\ py >= 0 /\ py < c.h
  THEN ImgPixel(c.img, px, py)
  ELSE <<0, 0, 0>>

----
(* Fractions *)

RECURSIVE Gcd(_, _)
Gcd(a, b) == IF b = 0 THEN a ELSE Gcd(b, a % b)

Frac(n, d) == LET g == Gcd(n, d) IN [n |-> n \div g, d |-> d \div g]
Trunc(f) == f.n \div f.d

----
(* ColorScience.getMedianColor *)

RECURSIVE SumSeq(_)
SumSeq(arr) == IF arr = << >> THEN 0 ELSE Head(arr) + SumSeq(Tail(arr))

(* the lower of the two middle values for an even length *)
medianLower(arr) ==
  IF Len(arr) = 0 THEN 0
  ELSE SortSeq(arr, LAMBDA a, b : a < b)[((Len(arr) - 1) \div 2) + 1]

median(arr) ==
  IF Len(arr) = 0 THEN 0
  ELSE SortSeq(arr, LAMBDA a, b : a < b)[(Len(arr) \div 2) + 1]

(* ctx.getImageData(roi.x, roi.y, roi.w, roi.h): the arguments are truncated *)
(* to integers; a zero width or height raises IndexSizeError                 *)
ImageDataThrows(roi) == Trunc(roi.w) = 0 \/ Trunc(roi.h) = 0

getImageData(c, roi) ==
  LET sx == Trunc(roi.x)
      sy == Trunc(roi.y)
      sw == Trunc(roi.w)
      sh == Trunc(roi.h)
  IN [k \in 1..(sw * sh) |-> CanvasPixel(c, sx + ((k - 1) % sw), sy + ((k - 1) \div sw))]

(* v < 0.95 only: shadows pass *)
RetainedBelowGlare(p) == rgbToHsv(p[1], p[2], p[3]).v * 100 < 95 * Scale

(* v > 0.05 only: glare passes *)
RetainedAboveShadow(p) == rgbToHsv(p[1], p[2], p[3]).v * 100 > 5 * Scale

(* the value filter of line 79 *)
Retained(p) ==
  LET v == rgbToHsv(p[1], p[2], p[3]).v
  IN v * 100 > 5 * Scale /\ v * 100 < 95 * Scale

(* lines 74-91: the loop over the pixels of imageData and the returned sample *)
SampleOf(data) ==
  LET kept == SelectSeq(data, Retained)
      rs == [k \in 1..Len(kept) |-> kept[k][1]]
      gs == [k \in 1..Len(kept) |-> kept[k][2]]
      bs == [k \in 1..Len(kept) |-> kept[k][3]]
      ss == [k \in 1..Len(kept) |-> rgbToHsv(kept[k][1], kept[k][2], kept[k][3]).s]
  IN [rgb |-> [r |-> median(rs), g |-> median(gs), b |-> median(bs)],
      saturation |-> SumSeq(ss) \div (IF Len(ss) = 0 THEN 1 ELSE Len(ss))]

getMedianColor(c, roi) == SampleOf(getImageData(c, roi))

----
(* analyzeColors, the numeric part (lines 296-319) *)

target == 240

(* scaleR, scaleG, scaleB: target / Math.max(channel, 1), fixed-point *)
WbScale(control) == (target * Scale) \div Max2(control, 1)

(* correct() without the clamp of Math.min *)
CorrectChannelUnclamped(raw, scale) == raw * scale

(* one channel of correct(): Math.min(255, raw * scale), fixed-point *)
CorrectChannel(raw, scale) == Min2(255 * Scale, raw * scale)

correct(rgb, control) ==
  [r |-> CorrectChannel(rgb.r, WbScale(control.r)),
   g |-> CorrectChannel(rgb.g, WbScale(control.g)),
   b |-> CorrectChannel(rgb.b, WbScale(control.b))]

(* totalD || 1 *)
Divisor(totalD) == IF totalD = 0 THEN LabScale ELSE totalD

(* (d / (totalD || 1)) * 100, fixed-point in units of 1/Scale *)
Pct(d, totalD) == ((d * Scale) \div Divisor(totalD)) * 100

(* both percentages taken from dB *)
PercentagesCopied(dA, dB) ==
  [pctA |-> Pct(dB, dA + dB),
   pctB |-> Pct(dB, dA + dB)]

(* pctA and pctB of lines 317-319 *)
Percentages(dA, dB) ==
  [pctA |-> Pct(dB, dA + dB),
   pctB |-> Pct(dA, dA + dB)]

(* dA <= dB ? 'A' : 'B' *)
WinnerOnTie(dA, dB) == IF dA <= dB THEN "A" ELSE "B"

(* dA < dB ? 'A' : 'B' (328) *)
Winner(dA, dB) == IF dA < dB THEN "A" ELSE "B"

ROI_KEYS == <<"A", "B", "TEST", "CONTROL">>

(* the exception the synchronous part raises, or "null" when it raises none *)
SamplingError(c, r) ==
  IF \E k \in 1..Len(ROI_KEYS) : r[ROI_KEYS[k]] = NULL THEN "TypeError"
  ELSE IF \E k \in 1..Len(ROI_KEYS) : ImageDataThrows(r[ROI_KEYS[k]]) THEN "IndexSizeError"
  ELSE "null"

(* the locals of analyzeColors that are live across the await of line 324 *)
Numeric(c, r) ==
  LET sampleA == getMedianColor(c, r["A"])
      sampleB == getMedianColor(c, r["B"])
      sampleTest == getMedianColor(c, r["TEST"])
      sampleControl == getMedianColor(c, r["CONTROL"])
      cA == correct(sampleA.rgb, sampleControl.rgb)
      cB == correct(sampleB.rgb, sampleControl.rgb)
      cTest == correct(sampleTest.rgb, sampleControl.rgb)
      labA == rgbToLab(cA.r, cA.g, cA.b)
      labB == rgbToLab(cB.r, cB.g, cB.b)
      labTest == rgbToLab(cTest.r, cTest.g, cTest.b)
      dA == deltaE(labTest, labA)
      dB == deltaE(labTest, labB)
  IN [sampleA |-> sampleA,
      sampleB |-> sampleB,
      sampleTest |-> sampleTest,
      sampleControl |-> sampleControl,
      dA |-> dA,
      dB |-> dB,
      pctA |-> Percentages(dA, dB).pctA,
      pctB |-> Percentages(dA, dB).pctB]

----
(* The ColorExaminer component *)

ROI_STEPS == Len(ROI_KEYS)

NoError == "null"
Fallback == "Analysis complete but no descriptive report generated."

(* what response.text can be: a text, the empty string, or undefined *)
Undefined == "undefined"
AiTexts == {"report text", "", Undefined}

(* what generateContent can reject with: an Error with or without a message *)
AiErrors == {[message |-> "quota exceeded"], [message |-> ""]}

(* container.clientWidth of the editor, and maxH of updateDisplay *)
ContainerW == 2
maxH == 600

(* Bounds on the inputs *)
MaxMove == 2          \* the pointer visits the first MaxMove + 1 points of the diagonal
MaxCameraReqs == 1    \* getUserMedia requests in flight
MaxDist == 8          \* ProbeSpec: distances 0, 1/2, .., MaxDist/2

VARIABLES
  image, step, rois, results, isAnalyzing, error, isCameraActive,   \* useState, 117-123
  isDrawing, startPos, currentRect,                                  \* useState, 132-134
  canvas,        \* canvasRef: NULL while the editor is not rendered
  videoSrc,      \* the <video> element has a srcObject
  reads,         \* FileReader loads in flight
  loads,         \* Image loads in flight (the [image] effect)
  cameraReqs,    \* getUserMedia calls in flight
  pending,       \* analyzeColors runs suspended at the await of line 324
  probe          \* ProbeSpec: one application of a pure function

vars == <<image, step, rois, results, isAnalyzing, error, isCameraActive,
          isDrawing, startPos, currentRect, canvas, videoSrc,
          reads, loads, cameraReqs, pending, probe>>

NoProbe == [op |-> "none"]

NoRois == [k \in {ROI_KEYS[i] : i \in 1..ROI_STEPS} |-> NULL]

Session0 ==
  /\ image = NoImage
  /\ step = 0
  /\ rois = NoRois
  /\ results = NULL
  /\ isAnalyzing = FALSE
  /\ error = NoError
  /\ isCameraActive = FALSE
  /\ isDrawing = FALSE
  /\ startPos = [x |-> 0, y |-> 0]
  /\ currentRect = NULL
  /\ canvas = NULL
  /\ videoSrc = FALSE
  /\ reads = {}
  /\ loads = {}
  /\ cameraReqs = 0
  /\ pending = << >>

Init == Session0 /\ probe = NoProbe

(* the button shown one step early *)
AnalyzeShownEarly == step >= ROI_STEPS - 1 /\ results = NULL

(* What is rendered (lines 366, 383, 440, 499) *)
HeroShown == image = NoImage /\ ~isCameraActive
ResetShown == image # NoImage \/ isCameraActive
EditorShown == image # NoImage /\ ~isCameraActive
AnalyzeShown == step = ROI_STEPS /\ results = NULL

(* a button that is never disabled *)
AnalyzeAlwaysEnabled == TRUE

(* disabled={isAnalyzing} (502) *)
AnalyzeEnabled == ~isAnalyzing

(* the results panel (539-609) shows winner, pctA, pctB, dA, dB and report; *)
(* nothing rendered reads results.controlSat                                *)
CalibrationWarningShown == FALSE

(* Rendering after a handler: the two canvases exist while the editor is   *)
(* shown, a new canvas element is fresh, and the [image] effect (205-218)  *)
(* starts a load when image changed to a loadable picture.                 *)
CanvasAfter(img, cam) ==
  IF img = NoImage \/ cam THEN NULL
  ELSE IF canvas = NULL THEN FreshCanvas
  ELSE canvas

LoadsAfter(img, cam) ==
  IF img # image /\ img \in Images /\ ~cam THEN loads \cup {img} ELSE loads

(* updateDisplay (220-232): the size of the display canvas for a source canvas *)
Display(c) ==
  IF ContainerW * c.h <= maxH * c.w
  THEN [w |-> ContainerW, h |-> (c.h * ContainerW) \div c.w]
  ELSE [w |-> (c.w * maxH) \div c.h, h |-> maxH]

(* where the pointer can move: the first MaxMove + 1 points of the diagonal *)
(* of the display canvas, clipped to it                                    *)
Points(c) ==
  {[x |-> Min2(k, Display(c).w - 1), y |-> Min2(k, Display(c).h - 1)] : k \in 0..MaxMove}

(* where a drag starts: the top left corner of the display canvas *)
DragOrigin == [x |-> 0, y |-> 0]

(* the roi of handleMouseMove (271-277): ratio = sCanvas.width / dCanvas.width *)
DragRect(c, from, to) ==
  LET dw == Display(c).w
  IN [x |-> Frac(Min2(from.x, to.x) * c.w, dw),
      y |-> Frac(Min2(from.y, to.y) * c.w, dw),
      w |-> Frac(Abs(to.x - from.x) * c.w, dw),
      h |-> Frac(Abs(to.y - from.y) * c.w, dw)]

(* resetAnalysis (147-153) with image and the camera as the caller leaves them *)
ResetTo(img) ==
  /\ image' = img
  /\ step' = 0
  /\ rois' = NoRois
  /\ results' = NULL
  /\ error' = NoError
  /\ isCameraActive' = FALSE
  /\ canvas' = CanvasAfter(img, FALSE)
  /\ loads' = LoadsAfter(img, FALSE)
  /\ videoSrc' = FALSE

(* handleUpload (136-145): the file input of the hero section *)
HandleUpload(f) ==
  /\ HeroShown
  /\ reads' = reads \cup {f}
  /\ UNCHANGED <<image, step, rois, results, isAnalyzing, error, isCameraActive,
                 isDrawing, startPos, currentRect, canvas, videoSrc,
                 loads, cameraReqs, pending, probe>>

(* reader.onload (140-143) *)
ReaderOnload(f) ==
  /\ f \in reads
  /\ reads' = reads \ {f}
  /\ ResetTo(f)
  /\ UNCHANGED <<isAnalyzing, isDrawing, startPos, currentRect,
                 cameraReqs, pending, probe>>

(* img.onload (208-215); canvasRef.current! is null when the editor is gone *)
ImgOnload(i) ==
  /\ i \in loads
  /\ loads' = loads \ {i}
  /\ canvas' = IF canvas = NULL THEN NULL
               ELSE [w |-> ImgDims(i).w, h |-> ImgDims(i).h, img |-> i]
  /\ UNCHANGED <<image, step, rois, results, isAnalyzing, error, isCameraActive,
                 isDrawing, startPos, currentRect, videoSrc,
                 reads, cameraReqs, pending, probe>>

(* the Reset button (366-373): setImage(null); setResults(null); stopCamera(); resetAnalysis() *)
ResetClick ==
  /\ ResetShown
  /\ ResetTo(NoImage)
  /\ UNCHANGED <<isAnalyzing, isDrawing, startPos, currentRect, reads,
                 cameraReqs, pending, probe>>

(* startCamera (155-158), up to the await *)
StartCamera ==
  /\ HeroShown
  /\ cameraReqs < MaxCameraReqs
  /\ error' = NoError
  /\ cameraReqs' = cameraReqs + 1
  /\ UNCHANGED <<image, step, rois, results, isAnalyzing, isCameraActive,
                 isDrawing, startPos, currentRect, canvas, videoSrc,
                 reads, loads, pending, probe>>

(* startCamera (161-166), getUserMedia resolved *)
CameraGranted ==
  /\ cameraReqs > 0
  /\ cameraReqs' = cameraReqs - 1
  /\ videoSrc' = isCameraActive       \* videoRef.current is set only while the video is rendered
  /\ isCameraActive' = TRUE
  /\ image' = NoImage
  /\ canvas' = NULL
  /\ UNCHANGED <<step, rois, results, isAnalyzing, error, isDrawing, startPos,
                 currentRect, reads, loads, pending, probe>>

(* startCamera (167-169), getUserMedia rejected *)
CameraDenied ==
  /\ cameraReqs > 0
  /\ cameraReqs' = cameraReqs - 1
  /\ error' = "Camera access failed"
  /\ UNCHANGED <<image, step, rois, results, isAnalyzing, isCameraActive,
                 isDrawing, startPos, currentRect, canvas, videoSrc,
                 reads, loads, pending, probe>>

(* stopCamera (172-178), the X button of the camera view *)
StopCamera ==
  /\ isCameraActive
  /\ isCameraActive' = FALSE
  /\ videoSrc' = FALSE
  /\ canvas' = CanvasAfter(image, FALSE)
  /\ UNCHANGED <<image, step, rois, results, isAnalyzing, error, isDrawing,
                 startPos, currentRect, reads, loads, cameraReqs, pending, probe>>

(* capturePhoto (180-195): a frame of the video, or the empty data URL of a *)
(* video that shows nothing                                                 *)
CapturePhoto(f) ==
  /\ isCameraActive
  /\ f \in (IF videoSrc THEN Images \cup {EmptyImg} ELSE {EmptyImg})
  /\ ResetTo(f)
  /\ UNCHANGED <<isAnalyzing, isDrawing, startPos, currentRect, reads,
                 cameraReqs, pending, probe>>

AllPoints == Points(FreshCanvas) \cup UNION {Points(ImgDims(i)) : i \in Images}

(* handleMouseDown (255-262) *)
HandleMouseDown(p) ==
  /\ EditorShown
  /\ step < ROI_STEPS
  /\ startPos' = p
  /\ isDrawing' = TRUE
  /\ UNCHANGED <<image, step, rois, results, isAnalyzing, error, isCameraActive,
                 currentRect, canvas, videoSrc, reads, loads,
                 cameraReqs, pending, probe>>

(* handleMouseMove (264-279) *)
HandleMouseMove(p) ==
  /\ EditorShown
  /\ p \in Points(canvas)
  /\ isDrawing
  /\ currentRect' = DragRect(canvas, startPos, p)
  /\ UNCHANGED <<image, step, rois, results, isAnalyzing, error, isCameraActive,
                 isDrawing, startPos, canvas, videoSrc, reads, loads,
                 cameraReqs, pending, probe>>

(* the region handleMouseUp stores (285) *)
StoredRoi(rect) == rect

(* handleMouseUp (281-288); ROI_STEPS[step].key raises once step is past the end *)
HandleMouseUp ==
  /\ EditorShown
  /\ isDrawing
  /\ currentRect # NULL
  /\ isDrawing' = FALSE
  /\ IF step < ROI_STEPS
     THEN /\ rois' = [rois EXCEPT ![ROI_KEYS[step + 1]] = StoredRoi(currentRect)]
          /\ currentRect' = NULL
          /\ step' = step + 1
     ELSE UNCHANGED <<rois, currentRect, step>>
  /\ UNCHANGED <<image, results, isAnalyzing, error, isCameraActive, startPos,
                 canvas, videoSrc, reads, loads, cameraReqs, pending, probe>>

(* analyzeColors (290-324), up to the await: the button of lines 499-508 *)
AnalyzeColors ==
  /\ EditorShown
  /\ AnalyzeShown
  /\ AnalyzeEnabled
  /\ IF SamplingError(canvas, rois) # NoError
     THEN /\ error' = SamplingError(canvas, rois)
          /\ isAnalyzing' = FALSE
          /\ pending' = pending
     ELSE /\ error' = NoError
          /\ isAnalyzing' = TRUE
          /\ pending' = Append(pending, Numeric(canvas, rois))
  /\ UNCHANGED <<image, step, rois, results, isCameraActive, isDrawing, startPos,
                 currentRect, canvas, videoSrc, reads, loads, cameraReqs, probe>>

Remove(seq, i) == [k \in 1..(Len(seq) - 1) |-> IF k < i THEN seq[k] ELSE seq[k + 1]]

(* response.text ?? "Analysis complete ..." *)
ReportTextNullish(text) == IF text = Undefined THEN Fallback ELSE text

(* String(response.text || "Analysis complete ...") (325) *)
ReportText(text) == IF text = "" \/ text = Undefined THEN Fallback ELSE text

(* the numbers read from the session as it is when the call returns *)
PublishedFromSession(locals, text) ==
  LET now == IF EditorShown /\ SamplingError(canvas, rois) = NoError
             THEN Numeric(canvas, rois) ELSE locals
  IN [winner |-> Winner(now.dA, now.dB),
      pctA |-> now.pctA,
      pctB |-> now.pctB,
      dA |-> now.dA,
      dB |-> now.dB,
      report |-> ReportText(text),
      controlSat |-> now.sampleControl.saturation]

(* the record of setResults (327-335) *)
Published(locals, text) ==
  [winner |-> Winner(locals.dA, locals.dB),
   pctA |-> locals.pctA,
   pctB |-> locals.pctB,
   dA |-> locals.dA,
   dB |-> locals.dB,
   report |-> ReportText(text),
   controlSat |-> locals.sampleControl.saturation]

(* analyzeColors (325-335, 339): generateContent resolved *)
AiResolved(i, text) ==
  /\ i \in 1..Len(pending)
  /\ results' = Published(pending[i], text)
  /\ isAnalyzing' = FALSE
  /\ pending' = Remove(pending, i)
  /\ UNCHANGED <<image, step, rois, error, isCameraActive, isDrawing, startPos,
                 currentRect, canvas, videoSrc, reads, loads, cameraReqs, probe>>

(* String(err.message || err || 'Analysis failed') (338) *)
ErrorText(err) == IF err.message # "" THEN err.message ELSE "Error"

(* the catch without the finally: isAnalyzing stays set *)
AiRejectedNoFinally(i, err) ==
  /\ i \in 1..Len(pending)
  /\ error' = ErrorText(err)
  /\ pending' = Remove(pending, i)
  /\ UNCHANGED <<image, step, rois, results, isAnalyzing, isCameraActive, isDrawing,
                 startPos, currentRect, canvas, videoSrc, reads, loads, cameraReqs, probe>>

(* analyzeColors (336-339): generateContent rejected *)
AiRejected(i, err) ==
  /\ i \in 1..Len(pending)
  /\ error' = ErrorText(err)
  /\ isAnalyzing' = FALSE
  /\ pending' = Remove(pending, i)
  /\ UNCHANGED <<image, step, rois, results, isCameraActive, isDrawing, startPos,
                 currentRect, canvas, videoSrc, reads, loads, cameraReqs, probe>>

(* the X of the error banner (667) *)
DismissError ==
  /\ error # NoError
  /\ error' = NoError
  /\ UNCHANGED <<image, step, rois, results, isAnalyzing, isCameraActive,
                 isDrawing, startPos, currentRect, canvas, videoSrc,
                 reads, loads, cameraReqs, pending, probe>>

Next ==
  \/ \E f \in Images : HandleUpload(f)
  \/ \E f \in Images : ReaderOnload(f)
  \/ \E i \in Images : ImgOnload(i)
  \/ ResetClick
  \/ StartCamera
  \/ CameraGranted
  \/ CameraDenied
  \/ StopCamera
  \/ \E f \in Images \cup {EmptyImg} : CapturePhoto(f)
  \/ HandleMouseDown(DragOrigin)
  \/ \E p \in AllPoints : HandleMouseMove(p)
  \/ HandleMouseUp
  \/ AnalyzeColors
  \/ \E i \in DOMAIN pending, text \in AiTexts : AiResolved(i, text)
  \/ \E i \in DOMAIN pending, err \in AiErrors : AiRejected(i, err)
  \/ DismissError

Spec == Init /\ [][Next]_vars

(* the promise of generateContent (324) settles: a suspended run is resumed *)
AiSettles ==
  \/ \E i \in DOMAIN pending, text \in AiTexts : AiResolved(i, text)
  \/ \E i \in DOMAIN pending, err \in AiErrors : AiRejected(i, err)

LiveSpec == Spec /\ WF_vars(AiSettles)

----
(* ProbeSpec: one application of the Comparator or of the Calibrator to    *)
(* inputs drawn from bounded sets.                                         *)

Bytes == 0..255
Distances == {k * (LabScale \div 2) : k \in 0..MaxDist}

(* channel values for rgbToLab *)
Channels == {0, 13, 128, 242, 255}

(* pixels of a region: glare, the two sides of v = 0.95, mid gray, the two *)
(* sides of v = 0.05                                                       *)
SamplePixels ==
  {<<255, 255, 255>>, <<243, 240, 240>>, <<242, 200, 100>>,
   <<120, 120, 120>>, <<13, 13, 13>>, <<12, 12, 12>>}

(* the pixel data of a region of at most MaxPixels pixels *)
MaxPixels == 4
PixelData == UNION {[1..n -> SamplePixels] : n \in 0..MaxPixels}

ProbeInit ==
  /\ Session0
  /\ probe \in [op : {"compare"}, a : Distances, b : Distances, done : {FALSE}]
               \cup [op : {"correct"}, a : Bytes, b : Bytes, done : {FALSE}]
               \cup [op : {"lab"}, r : Channels, g : Channels, b : Channels, done : {FALSE}]
               \cup [op : {"sample"}, data : PixelData, done : {FALSE}]

UiVars == <<image, step, rois, results, isAnalyzing, error, isCameraActive,
            isDrawing, startPos, currentRect, canvas, videoSrc,
            reads, loads, cameraReqs, pending>>

(* lines 315-319, 328: a = dA, b = dB *)
ApplyCompare ==
  /\ probe.op = "compare"
  /\ ~probe.done
  /\ probe' = [op |-> "compare", a |-> probe.a, b |-> probe.b, done |-> TRUE,
               winner |-> Winner(probe.a, probe.b),
               pctA |-> Percentages(probe.a, probe.b).pctA,
               pctB |-> Percentages(probe.a, probe.b).pctB]
  /\ UNCHANGED UiVars

(* lines 300-308: a = a channel of the control sample, b = a raw channel *)
ApplyCorrect ==
  /\ probe.op = "correct"
  /\ ~probe.done
  /\ probe' = [op |-> "correct", a |-> probe.a, b |-> probe.b, done |-> TRUE,
               scale |-> WbScale(probe.a),
               corrected |-> CorrectChannel(probe.b, WbScale(probe.a))]
  /\ UNCHANGED UiVars

(* lines 51-66 *)
ApplyLab ==
  /\ probe.op = "lab"
  /\ ~probe.done
  /\ probe' = [op |-> "lab", r |-> probe.r, g |-> probe.g, b |-> probe.b, done |-> TRUE,
               lab |-> rgbToLab(probe.r * Scale, probe.g * Scale, probe.b * Scale)]
  /\ UNCHANGED UiVars

(* lines 74-91 on the pixel data of a region *)
ApplySample ==
  /\ probe.op = "sample"
  /\ ~probe.done
  /\ probe' = [op |-> "sample", data |-> probe.data, done |-> TRUE,
               sample |-> SampleOf(probe.data)]
  /\ UNCHANGED UiVars

ProbeNext == ApplyCompare \/ ApplyCorrect \/ ApplyLab \/ ApplySample

ProbeSpec == ProbeInit /\ [][ProbeNext]_vars

----
(* Properties *)

RoiKeys == {ROI_KEYS[i] : i \in 1..ROI_STEPS}

(* C1: analyzeColors never samples while a region is undefined: whenever the *)
(* Run button can invoke it (editor rendered, button shown and enabled) all  *)
(* four rois are set, and the null dereference of lines 296-299 never shows  *)
(* up as an error.                                                           *)
C1_RegionsDefinedOnEntry ==
  /\ (EditorShown /\ AnalyzeShown /\ ~isAnalyzing) => \A k \in RoiKeys : rois[k] # NULL
  /\ error # "TypeError"

C1_Witness ==
  /\ isAnalyzing
  /\ Len(pending) = 1
  /\ step = ROI_STEPS
  /\ \A k \in RoiKeys : rois[k] # NULL

(* C2: when generateContent rejects, the run still publishes its numeric  *)
(* values with the fallback report.                                        *)
C2_RejectionStillPublishes ==
  [][\A i \in DOMAIN pending : \A err \in AiErrors :
       AiRejected(i, err) => results' = Published(pending[i], "")]_vars

(* C3: when generateContent resolves with empty or missing text, the result *)
(* published holds the numbers computed before the call and the fallback    *)
(* report, and the error state is left as it was.                           *)
C3_EmptyTextFallsBack ==
  [][\A i \in DOMAIN pending : \A text \in {"", Undefined} :
       AiResolved(i, text) =>
         /\ results' = [winner |-> IF pending[i].dA < pending[i].dB THEN "A" ELSE "B",
                        pctA |-> pending[i].pctA,
                        pctB |-> pending[i].pctB,
                        dA |-> pending[i].dA,
                        dB |-> pending[i].dB,
                        report |-> Fallback,
                        controlSat |-> pending[i].sampleControl.saturation]
         /\ error' = error]_vars

C3_Witness ==
  /\ results # NULL
  /\ results.report = Fallback
  /\ error = NoError
  /\ ~isAnalyzing

(* the two quotients are rounded down to 1/Scale before the factor 100 *)
SumsTo100(pctA, pctB) == Abs(pctA + pctB - 100 * Scale) <= 100

(* C4: for distances dA, dB >= 0 with dA + dB > 0 the Comparator's          *)
(* percentages add up to 100.                                               *)
C4_PercentagesSumTo100 ==
  (probe.op = "compare" /\ probe.done /\ probe.a + probe.b > 0)
    => SumsTo100(probe.pctA, probe.pctB)

C4_Witness ==
  /\ probe.op = "compare"
  /\ probe.done
  /\ probe.a = LabScale
  /\ probe.b = 3 * LabScale
  /\ probe.pctA + probe.pctB = 100 * Scale

(* C5: every published result has pctA + pctB = 100, also when TEST, A and *)
(* B have the same Lab triple.                                              *)
C5_PublishedSumTo100 ==
  results # NULL => SumsTo100(results.pctA, results.pctB)

(* C6: in every published result the winner is A exactly when dA < dB, B   *)
(* otherwise, and A exactly when pctA > pctB; distances 1 and 3 give A     *)
(* with 75 and 25.                                                         *)
C6_WinnerHasSmallerDistance ==
  /\ results # NULL =>
       /\ results.winner \in {"A", "B"}
       /\ results.winner = "A" <=> results.dA < results.dB
       /\ results.winner = "A" <=> results.pctA > results.pctB
  /\ Winner(LabScale, 3 * LabScale) = "A"
  /\ Percentages(LabScale, 3 * LabScale) = [pctA |-> 75 * Scale, pctB |-> 25 * Scale]

C6_Witness ==
  /\ results # NULL
  /\ results.winner = "A"
  /\ results.dA < results.dB
  /\ results.pctA > results.pctB

Degenerate(sample) == sample = [rgb |-> [r |-> 0, g |-> 0, b |-> 0], saturation |-> 0]

(* C7: when the samples of A and B are both fully degenerate, the result  *)
(* published has pctA = pctB = 50, whatever TEST and CONTROL are.          *)
C7_DegenerateReferencesTie ==
  [][\A i \in DOMAIN pending : \A text \in AiTexts :
       (AiResolved(i, text) /\ Degenerate(pending[i].sampleA) /\ Degenerate(pending[i].sampleB))
         => (results'.pctA = 50 * Scale /\ results'.pctB = 50 * Scale)]_vars

(* C8: for control and raw channels in 0..255 the scale is 240 / max(c, 1), *)
(* the corrected value is min(255, raw * scale) up to the rounding of the   *)
(* scale and lies in [0, 255]; control 120 maps 100 to 200 and control 10   *)
(* maps 50 to 255.                                                          *)
C8_CalibratorClamps ==
  (probe.op = "correct" /\ probe.done) =>
    LET m == Max2(probe.a, 1)
        exact == Min2(255 * Scale * m, probe.b * 240 * Scale)   \* m * min(255, raw * 240 / m)
    IN /\ probe.scale * m <= 240 * Scale
       /\ 240 * Scale < (probe.scale + 1) * m
       /\ probe.corrected >= 0
       /\ probe.corrected <= 255 * Scale
       /\ probe.corrected * m <= exact
       /\ exact - probe.corrected * m <= probe.b * m
       /\ (probe.a = 120 /\ probe.b = 100) => probe.corrected = 200 * Scale
       /\ (probe.a = 10 /\ probe.b = 50) => probe.corrected = 255 * Scale

C8_Witness ==
  /\ probe.op = "correct"
  /\ probe.done
  /\ probe.a = 10
  /\ probe.b = 50
  /\ probe.scale = 24 * Scale
  /\ probe.corrected = 255 * Scale

(* x + w <= limit for fractions x, w *)
FitsIn(x, w, limit) == x.n * w.d + w.n * x.d <= limit * x.d * w.d

(* C9: every stored region has w > 0 and h > 0 and lies inside the image  *)
(* held by the analysis canvas.                                            *)
C9_StoredRegionsValid ==
  \A k \in RoiKeys :
    rois[k] # NULL =>
      /\ rois[k].w.n > 0
      /\ rois[k].h.n > 0
      /\ canvas # NULL =>
           /\ FitsIn(rois[k].x, rois[k].w, canvas.w)
           /\ FitsIn(rois[k].y, rois[k].h, canvas.h)

(* C10: the results panel flags a calibration warning exactly when the    *)
(* control saturation of the result exceeds 0.15.                          *)
C10_WarningAboveThreshold ==
  results # NULL => (CalibrationWarningShown <=> results.controlSat * 100 > 15 * Scale)

(* C11: rgbToLab maps sRGB (0, 0, 0) to Lab (0, 0, 0), to the resolution   *)
(* of the arithmetic, and sRGB (255, 255, 255) to within 0.5 of (100, 0, 0) *)
(* on each coordinate; mid gray (128, 128, 128) lands on the standard       *)
(* L* = 53.59, a* = b* = 0.                                                 *)
C11_LabReferencePoints ==
  (probe.op = "lab" /\ probe.done) =>
    /\ (probe.r = 0 /\ probe.g = 0 /\ probe.b = 0) =>
         /\ Abs(probe.lab.l) * 20 <= LabScale
         /\ Abs(probe.lab.a) * 20 <= LabScale
         /\ Abs(probe.lab.b) * 20 <= LabScale
    /\ (probe.r = 255 /\ probe.g = 255 /\ probe.b = 255) =>
         /\ Abs(probe.lab.l - 100 * LabScale) * 2 <= LabScale
         /\ Abs(probe.lab.a) * 2 <= LabScale
         /\ Abs(probe.lab.b) * 2 <= LabScale
    /\ (probe.r = 128 /\ probe.g = 128 /\ probe.b = 128) =>     \* standard: L* = 53.59
         /\ Abs(probe.lab.l * 100 - 5359 * LabScale) * 2 <= 100 * LabScale
         /\ Abs(probe.lab.a) * 2 <= LabScale
         /\ Abs(probe.lab.b) * 2 <= LabScale

C11_Witness ==
  /\ probe.op = "lab"
  /\ probe.done
  /\ probe.r = 255 /\ probe.g = 255 /\ probe.b = 255
  /\ probe.lab.l > 99 * LabScale

(* 0.05 < max(r, g, b) / 255 < 0.95 in whole numbers *)
InBand(p) ==
  LET m == Max3(p[1], p[2], p[3])
  IN 20 * m > 255 /\ 20 * m < 19 * 255

(* C12: the sampler retains a pixel exactly when 0.05 < v < 0.95, and the  *)
(* sample of a region is the sample of its retained pixels alone: pixels   *)
(* outside the band never change it.                                       *)
C12_SampleOfRetainedOnly ==
  (probe.op = "sample" /\ probe.done) =>
    /\ \A m \in Bytes : Retained(<<m, 0, 0>>) <=> InBand(<<m, 0, 0>>)
    /\ \A k \in DOMAIN probe.data : Retained(probe.data[k]) <=> InBand(probe.data[k])
    /\ probe.sample = SampleOf(SelectSeq(probe.data, InBand))

C12_Witness ==
  /\ probe.op = "sample"
  /\ probe.done
  /\ probe.data = << <<255, 255, 255>>, <<120, 120, 120>>, <<255, 255, 255>>, <<242, 200, 100>> >>
  /\ probe.sample.rgb = [r |-> 242, g |-> 200, b |-> 120]
  /\ probe.sample.saturation > 0

(* x is the value at index floor(n / 2) of the sorted channel ch *)
IsMedian(ch, x) ==
  LET n == Len(ch)
      below == Cardinality({i \in 1..n : ch[i] < x})
      upto == Cardinality({i \in 1..n : ch[i] <= x})
  IN /\ \E i \in 1..n : ch[i] = x
     /\ below <= n \div 2
     /\ n \div 2 < upto

Channel(data, c) == [k \in 1..Len(data) |-> data[k][c]]

(* C13: for a non-empty retained set of any size, each of the sample's R,  *)
(* G and B is the median (index floor(n / 2) after sorting) of that        *)
(* channel's retained values, channel by channel.                          *)
C13_PerChannelMedian ==
  (probe.op = "sample" /\ probe.done) =>
    LET kept == SelectSeq(probe.data, InBand)
    IN Len(kept) > 0 =>
         /\ IsMedian(Channel(kept, 1), probe.sample.rgb.r)
         /\ IsMedian(Channel(kept, 2), probe.sample.rgb.g)
         /\ IsMedian(Channel(kept, 3), probe.sample.rgb.b)

\* an even number of retained pixels, and a triple that is none of them
C13_Witness ==
  /\ probe.op = "sample"
  /\ probe.done
  /\ Len(SelectSeq(probe.data, InBand)) = 2
  /\ \A k \in DOMAIN probe.data :
       probe.data[k] # <<probe.sample.rgb.r, probe.sample.rgb.g, probe.sample.rgb.b>>

(* C14: when the value filter excludes every pixel of a region the sample  *)
(* is RGB (0, 0, 0) with saturation 0.                                     *)
C14_EmptyRetainedSet ==
  (probe.op = "sample" /\ probe.done /\ SelectSeq(probe.data, InBand) = << >>) =>
    probe.sample = [rgb |-> [r |-> 0, g |-> 0, b |-> 0], saturation |-> 0]

C14_Witness ==
  /\ probe.op = "sample"
  /\ probe.done
  /\ probe.data = << <<255, 255, 255>>, <<12, 12, 12>>, <<243, 240, 240>> >>
  /\ probe.sample.rgb = [r |-> 0, g |-> 0, b |-> 0]
  /\ probe.sample.saturation = 0

(* C15: a run computes all its numbers before the narrative call is issued, *)
(* nothing that happens while the call is pending changes them, and the     *)
(* numeric fields published when the call returns are those numbers.        *)
C15_NumbersFixedBeforeAwait ==
  [][/\ Len(pending') > Len(pending) =>
          pending' = Append(pending, Numeric(canvas, rois))
     /\ Len(pending') = Len(pending) => pending' = pending
     /\ \A i \in DOMAIN pending : \A text \in AiTexts :
          AiResolved(i, text) =>
            /\ results'.dA = pending[i].dA
            /\ results'.dB = pending[i].dB
            /\ results'.pctA = pending[i].pctA
            /\ results'.pctB = pending[i].pctB
            /\ results'.controlSat = pending[i].sampleControl.saturation
            /\ results'.winner = (IF pending[i].dA < pending[i].dB THEN "A" ELSE "B")]_vars

\* a result whose numbers are not those of the regions selected since
C15_Witness ==
  /\ results # NULL
  /\ EditorShown
  /\ step = ROI_STEPS
  /\ SamplingError(canvas, rois) = NoError
  /\ <<results.dA, results.dB>> # <<Numeric(canvas, rois).dA, Numeric(canvas, rois).dB>>

(* C16: a published result belongs to the current session: the image is   *)
(* set and all four regions are defined (step = 4).                        *)
C16_ResultOfCurrentSession ==
  results # NULL =>
    /\ image # NoImage
    /\ step = ROI_STEPS
    /\ \A k \in RoiKeys : rois[k] # NULL

(* C17: at most one analysis is in flight: while a run awaits the          *)
(* narrative call isAnalyzing is true and the button cannot start another, *)
(* whatever resets, uploads, captures and selections happen meanwhile.     *)
C17_OneAnalysisInFlight ==
  /\ Len(pending) <= 1
  /\ pending # << >> => isAnalyzing
  /\ (EditorShown /\ AnalyzeShown /\ AnalyzeEnabled) => pending = << >>

\* all four regions selected again after a reset, the first run still waiting
C17_Witness ==
  /\ Len(pending) = 1
  /\ isAnalyzing
  /\ EditorShown
  /\ AnalyzeShown
  /\ SamplingError(canvas, rois) = NoError
  /\ pending[1] # Numeric(canvas, rois)

(* C18: every started analysis finishes once the narrative call returns or *)
(* fails: isAnalyzing becomes false again, and the step that clears it has *)
(* set one outcome of the run, a result on success (error untouched) or an *)
(* error message on an exception (results untouched).                      *)
C18_AnalysisFinishes ==
  /\ isAnalyzing ~> ~isAnalyzing
  /\ [][/\ \A i \in DOMAIN pending : \A text \in AiTexts :
            AiResolved(i, text) =>
              (~isAnalyzing' /\ results' # NULL /\ error' = error)
        /\ \A i \in DOMAIN pending : \A err \in AiErrors :
            AiRejected(i, err) =>
              (~isAnalyzing' /\ error' # NoError /\ results' = results)
        /\ (AnalyzeColors /\ pending' = pending) =>
              (~isAnalyzing' /\ error' # NoError /\ results' = results)]_vars

\* a run has ended with an error and no result
C18_Witness ==
  /\ ~isAnalyzing
  /\ pending = << >>
  /\ step = ROI_STEPS
  /\ results = NULL
  /\ error = "quota exceeded"

====
